---- MODULE Spec2Model ----
\* LinkMe: the conversation-driven intent resolution and learning-path
\* curation pipeline.  The module models
\*   - the Curation Engine (lib/curriculum: analyzeAndCurateVideos),
\*   - the Gemini-backed chat turn handler (app/api/chat/message/route.ts),
\*   - the keyword-driven dialogue controller (chat route, keyword generation),
\*   - the clarifying-questions dialogue controller (chat route, first generation).
\* Exactly one chat route is deployed at POST /api/chat/message; the variable
\* `route` says which one.
EXTENDS Integers, Sequences, FiniteSets, TLC

VARIABLES
    GEMINI_API_KEY,      \* process.env.GEMINI_API_KEY is configured (BOOLEAN)
    curation,            \* the last direct application of analyzeAndCurateVideos
    route,               \* which chat route file is deployed
    conversationStates,  \* the route's module-level Map<string, ConversationState>
    response,            \* the JSON body of the last response
    turn,                \* what the last turn received and which collaborators it called
    turns,               \* number of turns handled so far
    asked,               \* the slots the last response asked for, the conversation it
                         \* belongs to, and how many responses in a row have asked that
                         \* conversation for exactly them
    db,                  \* the database tables the handlers read and write
    requests             \* the requests that are being handled, each at one of its awaits

vars == <<GEMINI_API_KEY, curation, route, conversationStates, response, turn, turns, asked,
          db, requests>>

-----------------------------------------------------------------------------
\* Bounds of the model

MaxCandidates == 2      \* length of a search result batch
MaxStages == 2          \* stages in one reasoning-service output
MaxStageVideos == 2     \* video entries in one stage of the service output
MaxTurns == 4           \* turns of a run of a chat route
MaxAsked == 3           \* the count of repeated questions saturates here
MaxRequests == 3        \* requests of a run of the progress route
MaxTotalVideos == 2     \* totalVideos of a saved learning path
MaxInFlight == 2        \* chat requests of one client key handled at the same time
MaxUnits == 3             \* phrases an utterance given to isNewTopic is made of
MaxStarted == 4         \* chat requests of one client key that are started in a run

-----------------------------------------------------------------------------
\* Generic helpers

SeqsUpTo(S, n) == UNION {[1..k -> S] : k \in 0..n}

Range(s) == {s[i] : i \in 1..Len(s)}

RECURSIVE SumLens(_)
SumLens(ss) == IF ss = <<>> THEN 0 ELSE Len(Head(ss).videos) + SumLens(Tail(ss))

-----------------------------------------------------------------------------
\* Curation Engine: analyzeAndCurateVideos

CandidateIds == {"v1", "v2"}        \* ids the search provider can return
UnknownIds == {"x9"}                \* an id that is in no batch
ServiceIds == CandidateIds \cup UnknownIds
Durations == {"10:00", "undefined"} \* YouTubeVideo.duration is optional

\* A batch of candidates: ids are unique within a batch.
CandidateLists ==
    {vs \in SeqsUpTo([id : CandidateIds, duration : Durations], MaxCandidates) :
        \A i, j \in 1..Len(vs) : vs[i].id = vs[j].id => i = j}

\* What the reasoning service can answer to the curation prompt.
\*   throw    : generateContent / response.text() throws
\*   nojson   : the text holds no {...} block
\*   badjson  : a {...} block is found and JSON.parse throws on it
\*   badshape : JSON parses and iterating analysis.stages (or a stage's videos) throws
\*   json     : JSON parses to an object; stages may be missing (hasStages = FALSE)
ServiceEntries == [videoId : ServiceIds]
ServiceStages == [videos : SeqsUpTo(ServiceEntries, MaxStageVideos)]
ServiceOutputs ==
    {[kind |-> k] : k \in {"throw", "nojson", "badjson", "badshape"}}
    \cup [kind : {"json"}, hasStages : {FALSE}]
    \cup [kind : {"json"}, hasStages : {TRUE}, stages : SeqsUpTo(ServiceStages, MaxStages)]

\* The answers in which the service also gives every stage a stageNumber and every
\* entry a qualityScore.  JSON carries any number: the values the prompt asks for
\* and values outside them.
QualityScores == {0, 5, 11}
StageNumbers == {0, 1, 2}
GradedEntries == [videoId : ServiceIds, qualityScore : QualityScores]
GradedStages == [stageNumber : StageNumbers, videos : SeqsUpTo(GradedEntries, 1)]
GradedOutputs == [kind : {"json"}, hasStages : {TRUE},
                  stages : SeqsUpTo(GradedStages, MaxStages)]

DefaultQualityScore == 7

\* videoAnalysis.qualityScore || 7: a missing field and 0 are falsy
QualityScoreOf(videoAnalysis) ==
    IF "qualityScore" \in DOMAIN videoAnalysis /\ videoAnalysis.qualityScore # 0
    THEN videoAnalysis.qualityScore ELSE DefaultQualityScore

\* stageNumber: stage.stageNumber
StageNumberOf(stage) ==
    IF "stageNumber" \in DOMAIN stage THEN stage.stageNumber ELSE "undefined"

NullPath == [ret |-> "null"]
Thrown == [ret |-> "throws"]    \* the call ends with an exception instead of a value

\* videos.find(v => v.id === videoAnalysis.videoId): index of the first match, 0 if none
OriginalVideo(videos, id) ==
    LET hits == {i \in 1..Len(videos) : videos[i].id = id}
    IN IF hits = {} THEN 0 ELSE CHOOSE i \in hits : \A j \in hits : i <= j

\* Mutant: the `if (originalVideo)` guard is missing and the service's id is copied.
CurateEntryUnchecked(acc, videos, videoAnalysis) ==
    [videos |-> Append(acc.videos, [videoId |-> videoAnalysis.videoId,
                                    estimatedTime |-> "Unknown"]),
     totalVideos |-> acc.totalVideos + 1]

\* Mutant: totalVideos counts every entry the service lists, matched or not.
CurateEntryCountAll(acc, videos, videoAnalysis) ==
    LET k == OriginalVideo(videos, videoAnalysis.videoId)
    IN [videos |-> IF k # 0
                   THEN Append(acc.videos, [videoId |-> videos[k].id,
                                            estimatedTime |-> "Unknown"])
                   ELSE acc.videos,
        totalVideos |-> acc.totalVideos + 1]

\* The body of the inner loop: one entry of a stage of the service output.
CurateEntry(acc, videos, videoAnalysis) ==
    LET k == OriginalVideo(videos, videoAnalysis.videoId)
    IN IF k # 0
       THEN [videos |-> Append(acc.videos,
                           [videoId |-> videos[k].id,
                            qualityScore |-> QualityScoreOf(videoAnalysis),
                            estimatedTime |-> IF videos[k].duration = "undefined"
                                              THEN "Unknown" ELSE videos[k].duration]),
             totalVideos |-> acc.totalVideos + 1]
       ELSE acc

RECURSIVE CurateStageVideos(_, _, _)
\* for (const videoAnalysis of stage.videos || [])
CurateStageVideos(entries, videos, acc) ==
    IF entries = <<>> THEN acc
    ELSE CurateStageVideos(Tail(entries), videos, CurateEntry(acc, videos, Head(entries)))

RECURSIVE CurateStages(_, _, _)
\* for (const stage of analysis.stages || []): a stage is pushed only when it
\* kept at least one video
CurateStages(stages, videos, learningPath) ==
    IF stages = <<>> THEN learningPath
    ELSE LET m == CurateStageVideos(Head(stages).videos, videos,
                      [videos |-> <<>>, totalVideos |-> learningPath.totalVideos])
             processedStage == [stageNumber |-> StageNumberOf(Head(stages)),
                                videos |-> m.videos]
         IN CurateStages(Tail(stages), videos,
                [ret |-> "path",
                 totalVideos |-> m.totalVideos,
                 stages |-> IF Len(processedStage.videos) > 0
                            THEN Append(learningPath.stages, processedStage)
                            ELSE learningPath.stages])

\* Mutant: the try/catch is missing, so a failure of the service call or of
\* JSON.parse leaves the function as an exception.
analyzeWithoutCatch(key, videos, svc) ==
    IF ~key \/ Len(videos) = 0 THEN [result |-> NullPath, calls |-> 0]
    ELSE IF svc.kind = "nojson" THEN [result |-> NullPath, calls |-> 1]
    ELSE IF svc.kind \in {"throw", "badjson", "badshape"}
         THEN [result |-> Thrown, calls |-> 1]
    ELSE [result |-> CurateStages(IF svc.hasStages THEN svc.stages ELSE <<>>, videos,
                         [ret |-> "path", totalVideos |-> 0, stages |-> <<>>]),
          calls |-> 1]

\* Mutant: the `videos.length === 0` test of the entry guard is missing.
analyzeWithoutEmptyCheck(key, videos, svc) ==
    IF ~key THEN [result |-> NullPath, calls |-> 0]
    ELSE IF svc.kind \in {"throw", "nojson", "badjson", "badshape"}
         THEN [result |-> NullPath, calls |-> 1]
    ELSE [result |-> CurateStages(IF svc.hasStages THEN svc.stages ELSE <<>>, videos,
                         [ret |-> "path", totalVideos |-> 0, stages |-> <<>>]),
          calls |-> 1]

\* The whole function, given the answer the reasoning service gives when called.
\* result: NullPath or the LearningPath; calls: calls made to the reasoning service.
analyzeAndCurateVideos(key, videos, svc) ==
    IF ~key \/ Len(videos) = 0 THEN [result |-> NullPath, calls |-> 0]
    ELSE IF svc.kind \in {"throw", "nojson", "badjson", "badshape"}
         THEN [result |-> NullPath, calls |-> 1]
    ELSE [result |-> CurateStages(IF svc.hasStages THEN svc.stages ELSE <<>>, videos,
                         [ret |-> "path", totalVideos |-> 0, stages |-> <<>>]),
          calls |-> 1]

-----------------------------------------------------------------------------
\* JavaScript string operations, on TLA+ strings

Upper == "ABCDEFGHIJKLMNOPQRSTUVWXYZ"
Lower == "abcdefghijklmnopqrstuvwxyz"

CharAt(s, i) == SubSeq(s, i, i)
From(s, i) == SubSeq(s, i, Len(s))

UpperToLower == [c \in {CharAt(Upper, i) : i \in 1..Len(Upper)} |->
                    CharAt(Lower, CHOOSE i \in 1..Len(Upper) : CharAt(Upper, i) = c)]

LowerChar(c) == IF c \in DOMAIN UpperToLower THEN UpperToLower[c] ELSE c

RECURSIVE toLowerCase(_)
toLowerCase(s) == IF Len(s) = 0 THEN "" ELSE LowerChar(CharAt(s, 1)) \o toLowerCase(From(s, 2))

\* s.includes(k)
includes(s, k) == \E i \in 1..(Len(s) - Len(k) + 1) : SubSeq(s, i, i + Len(k) - 1) = k

\* s.startsWith(k)
startsWith(s, k) == Len(s) >= Len(k) /\ SubSeq(s, 1, Len(k)) = k

RECURSIVE trimStart(_)
trimStart(s) == IF Len(s) > 0 /\ CharAt(s, 1) = " " THEN trimStart(From(s, 2)) ELSE s

RECURSIVE trimEnd(_)
trimEnd(s) ==
    IF Len(s) > 0 /\ CharAt(s, Len(s)) = " " THEN trimEnd(SubSeq(s, 1, Len(s) - 1)) ELSE s

\* s.trim()
trim(s) == trimEnd(trimStart(s))

\* index of the first occurrence of character c in s at or after position i, 0 if none
IndexFrom(s, c, i) ==
    LET hits == {j \in i..Len(s) : CharAt(s, j) = c}
    IN IF hits = {} THEN 0 ELSE CHOOSE j \in hits : \A k \in hits : j <= k

RECURSIVE removeTags(_)
\* s.replace(/<[^>]*>/g, ''): each match runs from a '<' to the first '>' after it
removeTags(s) ==
    LET lt == IndexFrom(s, "<", 1)
        gt == IF lt = 0 THEN 0 ELSE IndexFrom(s, ">", lt + 1)
    IN IF gt = 0 THEN s
       ELSE SubSeq(s, 1, lt - 1) \o removeTags(From(s, gt + 1))

EscapeChar(c) ==
    CASE c = "<" -> "&lt;"
      [] c = ">" -> "&gt;"
      [] c = "'" -> "&#39;"
      [] c = "\"" -> "&quot;"
      [] c = "&" -> "&amp;"
      [] OTHER -> c

RECURSIVE escapeChars(_)
escapeChars(s) == IF Len(s) = 0 THEN "" ELSE EscapeChar(CharAt(s, 1)) \o escapeChars(From(s, 2))

\* lib/validation sanitizeInput
sanitizeInput(input) == trim(escapeChars(removeTags(input)))

-----------------------------------------------------------------------------
\* Intent Extractor of the keyword-driven controller

SKILL_KEYWORDS == <<
    [level |-> "beginner", keywords |-> {"beginner", "begginer", "beginer", "newbie", "new",
        "noob", "starting", "start", "first", "never", "basics", "basic", "zero", "fresh",
        "just starting", "total beginner"}],
    [level |-> "intermediate", keywords |-> {"intermediate", "intermed", "medium", "mid",
        "some experience", "know basics", "familiar", "worked with", "used before", "okay",
        "ok", "decent", "middle"}],
    [level |-> "advanced", keywords |-> {"advanced", "advance", "expert", "experienced", "pro",
        "professional", "senior", "years", "master", "skilled"}] >>

GOAL_KEYWORDS == <<
    [goal |-> "project", keywords |-> {"project", "build", "make", "create", "develop", "app",
        "website", "portfolio", "practical", "hands-on", "application", "something"}],
    [goal |-> "concepts", keywords |-> {"concept", "theory", "understand", "learn",
        "fundamentals", "how it works", "why", "comprehensive"}],
    [goal |-> "quick", keywords |-> {"quick", "fast", "crash course", "overview", "intro",
        "introduction", "brief", "short"}] >>

GREETINGS == {"hey", "hi", "hello", "yo", "sup", "hiya", "howdy", "good morning",
    "good afternoon", "good evening", "whats up", "what's up", "hii", "heyy", "heyyy", "helloo"}

UNSURE_PATTERNS == {"idk", "i don't know", "i dont know", "not sure", "no idea", "dunno",
    "unsure", "whatever", "any", "anything", "doesn't matter", "up to you", "?"}

RESET_WORDS == {"start over", "reset", "new topic", "something else", "different"}

None == "none"   \* null / undefined slot value

isGreeting(message) ==
    LET lower == trim(toLowerCase(message))
    IN \E g \in GREETINGS :
        \/ lower = g
        \/ lower = g \o "!"
        \/ lower = g \o "!!"
        \/ startsWith(lower, g \o " ")

isUnsure(message) ==
    LET lower == trim(toLowerCase(message))
    IN (\E p \in UNSURE_PATTERNS : includes(lower, p)) \/ Len(lower) < 3

\* the first table row (in insertion order) one of whose keywords the text includes
extractSkillLevel(message) ==
    LET lower == toLowerCase(message)
        hits == {i \in 1..Len(SKILL_KEYWORDS) :
                    \E k \in SKILL_KEYWORDS[i].keywords : includes(lower, k)}
    IN IF hits = {} THEN None
       ELSE SKILL_KEYWORDS[CHOOSE i \in hits : \A j \in hits : i <= j].level

extractGoal(message) ==
    LET lower == toLowerCase(message)
        hits == {i \in 1..Len(GOAL_KEYWORDS) :
                    \E k \in GOAL_KEYWORDS[i].keywords : includes(lower, k)}
    IN IF hits = {} THEN None
       ELSE GOAL_KEYWORDS[CHOOSE i \in hits : \A j \in hits : i <= j].goal

hasResetWord(userMessage) == \E w \in RESET_WORDS : includes(toLowerCase(userMessage), w)

\* The request bodies the clients send (message field), before sanitising
Messages == {"", " <b></b> ", "hi", "idk", "python", "Beginner", "i am advanced",
             "quick overview", "build an app", "beginner python project", "start over",
             "now teach me guitar"}

\* Per message, what the handler computes from it
Parsed == [m \in Messages |->
    LET userMessage == trim(sanitizeInput(m))
    IN [userMessage |-> userMessage,
        reset |-> hasResetWord(userMessage),
        greeting |-> isGreeting(userMessage),
        unsure |-> isUnsure(userMessage),
        level |-> extractSkillLevel(userMessage),
        goal |-> extractGoal(userMessage)]]

-----------------------------------------------------------------------------
\* Requests and collaborators common to the chat routes

\* The conversation that is followed.  The handlers read and write only the entry
\* of the request's id; a request without an id is given generated id, which is
\* the id the client sends back from then on.
ConvIds == {"c1"}
NoId == "undefined"          \* the request carries no conversationId

\* checkRateLimit / recordAttempt as seen by the handler:
\*   ok      : admitted, attempt recorded
\*   limited : checkRateLimit answers allowed = false
\*   throws  : recordAttempt rejects (database error)
Gates == {"ok", "limited", "throws"}

\* chatMessageSchema: message is a string of 1..2000 characters
MaxMessageLength == 2000
validMessage(m) == Len(m) >= 1 /\ Len(m) <= MaxMessageLength

\* A rate-limited request is answered before its body is read: one body stands
\* for all of them.
BodiesRead(gate) == IF gate = "limited" THEN {"python"} ELSE Messages

\* Outcomes of searchTutorials: it throws, or returns a (possibly empty) batch
SearchOutcomes(batches) == {[kind |-> "throw"]} \cup [kind : {"ok"}, tutorials : batches]

NoResponse == [kind |-> "none"]
NoDb == [kind |-> "none"]            \* the database is not involved
NoRequests == <<>>                   \* no request is in flight
NoTurn == [kind |-> "none"]

\* The bodies of the responses that are common to the chat routes
TooManyRequests == [status |-> 429, success |-> FALSE, kind |-> "rate_limited", asks |-> {}]
InvalidMessage == [status |-> 400, success |-> FALSE, kind |-> "invalid", asks |-> {}]
ChatError == [status |-> 500, success |-> FALSE, kind |-> "chat_error", asks |-> {}]
\* Mutant: the re-prompt is sent as a validation error.
RepromptAsError(conversationId) ==
    [status |-> 400, success |-> FALSE, kind |-> "reprompt", asks |-> {"topic"},
     conversationId |-> conversationId]

\* if (!userMessage): "I didn't catch that. What would you like to learn?"
Reprompt(conversationId) ==
    [status |-> 200, success |-> TRUE, kind |-> "reprompt", asks |-> {"topic"},
     conversationId |-> conversationId]

-----------------------------------------------------------------------------
\* Keyword-driven dialogue controller (chat route, keyword generation)

KwAbsent == [stage |-> "absent", topic |-> None, skillLevel |-> None, goal |-> None]
KwGreeting == [stage |-> "greeting", topic |-> None, skillLevel |-> None, goal |-> None]

\* A success response that asks for the slots in `asks`
KwSay(kind, asks, convId) ==
    [status |-> 200, success |-> TRUE, kind |-> kind, asks |-> asks, conversationId |-> convId]

\* let searchQuery = `${topic} tutorial` ... plus the level and goal modifiers
KwSearchQuery(topic, level, goal) ==
    topic \o " tutorial"
    \o (CASE level = "beginner" -> " for beginners"
          [] level = "advanced" -> " advanced"
          [] OTHER -> "")
    \o (CASE goal = "project" -> " project"
          [] goal = "quick" -> " crash course"
          [] OTHER -> "")

\* Each stage handler yields
\*   local  : the object `state` refers to when the handler returns or falls through
\*   set    : conversationStates.set(convId, state) was executed
\*   done   : a response was returned (resp), else control falls through to the search
\* `state` aliases the stored object when one existed, so its mutations are
\* visible in the map even without a set.

\* Mutant: the first answer asks for the skill level and the goal together.
KwStageGreetingAsksBoth(state, p, convId) ==
    IF p.greeting
    THEN [local |-> state, set |-> FALSE, done |-> TRUE,
          resp |-> KwSay("hello", {"topic"}, convId)]
    ELSE [local |-> [state EXCEPT !.topic = p.userMessage, !.stage = "got_topic"],
          set |-> TRUE, done |-> TRUE,
          resp |-> KwSay("skill_question", {"skillLevel", "goal"}, convId)]

\* Stage 1: waiting for topic
KwStageGreeting(state, p, convId) ==
    IF p.greeting
    THEN [local |-> state, set |-> FALSE, done |-> TRUE,
          resp |-> KwSay("hello", {"topic"}, convId)]
    ELSE [local |-> [state EXCEPT !.topic = p.userMessage, !.stage = "got_topic"],
          set |-> TRUE, done |-> TRUE,
          resp |-> KwSay("skill_question", {"skillLevel"}, convId)]

\* A stage 2 that asks again whenever no level keyword is found
KwStageGotTopicReasks(state, p, convId) ==
    IF p.level = None
    THEN [local |-> state, set |-> FALSE, done |-> TRUE,
          resp |-> KwSay("skill_reask", {"skillLevel"}, convId)]
    ELSE [local |-> [state EXCEPT !.skillLevel = p.level, !.stage = "got_level"],
          set |-> TRUE, done |-> TRUE,
          resp |-> KwSay("goal_question", {"goal"}, convId)]

\* Stage 2: waiting for skill level
KwStageGotTopic(state, p, convId) ==
    LET extracted == p.level
        level == IF extracted = None /\ p.unsure THEN "beginner" ELSE extracted
    IN IF level = None
       THEN [local |-> state, set |-> FALSE, done |-> TRUE,
             resp |-> KwSay("skill_reask", {"skillLevel"}, convId)]
       ELSE [local |-> [state EXCEPT !.skillLevel = level, !.stage = "got_level"],
             set |-> TRUE, done |-> TRUE,
             resp |-> KwSay("goal_question", {"goal"}, convId)]

\* A stage 3 that goes on to the search without a goal when none is found
KwStageGotLevelNoDefault(state, p, convId) ==
    [local |-> [state EXCEPT !.goal = p.goal, !.stage = "ready_to_search"],
     set |-> FALSE, done |-> FALSE, resp |-> NoResponse]

\* Stage 3: waiting for goal; falls through to the search
KwStageGotLevel(state, p, convId) ==
    LET extracted == p.goal
        goal == IF extracted = None THEN "project" ELSE extracted
    IN [local |-> [state EXCEPT !.goal = goal, !.stage = "ready_to_search"],
        set |-> FALSE, done |-> FALSE, resp |-> NoResponse]

\* Mutant: the catch block of the search resets the conversation.
KwSearchThrowsResets(state, convId) ==
    [local |-> KwGreeting, set |-> TRUE, done |-> TRUE,
     resp |-> [status |-> 500, success |-> FALSE, kind |-> "search_failed", asks |-> {}]]

\* catch (error) of the search: 'Failed to search. Please try again.'
KwSearchThrows(state, convId) ==
    [local |-> state, set |-> FALSE, done |-> TRUE,
     resp |-> [status |-> 500, success |-> FALSE, kind |-> "search_failed", asks |-> {}]]

\* Stage 4: search
KwStageSearch(state, p, convId, search) ==
    IF search.kind = "throw" THEN KwSearchThrows(state, convId)
    ELSE IF Len(search.tutorials) = 0
    THEN [local |-> KwGreeting, set |-> TRUE, done |-> TRUE,
          resp |-> KwSay("no_results", {"topic"}, convId)]
    ELSE [local |-> [state EXCEPT !.stage = "results"], set |-> TRUE, done |-> TRUE,
          resp |-> KwSay("results", {}, convId) @@ [tutorials |-> search.tutorials]]

\* Mutant: the reset answers but keeps the slots and the stage.
KwResetKeepsSlots(state, convId) ==
    [resp |-> KwSay("reset", {"topic"}, convId), convId |-> convId,
     stored |-> state, searched |-> FALSE, query |-> ""]

\* if (resetWords.some(...)): state = { stage: 'greeting' }, set, 'No problem!'
KwReset(state, convId) ==
    [resp |-> KwSay("reset", {"topic"}, convId), convId |-> convId,
     stored |-> KwGreeting, searched |-> FALSE, query |-> ""]

\* The conversation flow after the reset check, from the loaded state
KwFlow(state, p, convId, search) ==
    LET first == CASE state.stage = "greeting" -> KwStageGreeting(state, p, convId)
                   [] state.stage = "got_topic" -> KwStageGotTopic(state, p, convId)
                   [] state.stage = "got_level" -> KwStageGotLevel(state, p, convId)
                   [] OTHER -> [local |-> state, set |-> FALSE, done |-> FALSE,
                                resp |-> NoResponse]
    IN IF first.done THEN first @@ [searched |-> FALSE, query |-> ""]
       ELSE LET st == first.local
                topic == IF st.topic = None THEN p.userMessage ELSE st.topic
                level == IF st.skillLevel = None THEN "beginner" ELSE st.skillLevel
                goal == IF st.goal = None THEN "project" ELSE st.goal
            IN KwStageSearch(st, p, convId, search)
               @@ [searched |-> TRUE, query |-> KwSearchQuery(topic, level, goal)]

\* The POST handler of the keyword route.  m: the message of the body;
\* conversationId: the id of the body or NoId; genId: the id `${userId}_${Date.now()}`
\* evaluates to; gate: the rate limiter; search: what searchTutorials does if called.
\* Yields the response, the value stored under convId afterwards, and the search made.
KeywordPOST(m, conversationId, genId, gate, search) ==
    LET p == Parsed[m]
        convId == IF conversationId = NoId THEN genId ELSE conversationId
        stored == conversationStates[convId]
        existed == stored # KwAbsent
        state == IF existed THEN stored ELSE KwGreeting
        quiet(resp) == [resp |-> resp, convId |-> conversationId, stored |-> stored,
                        searched |-> FALSE, query |-> ""]
    IN IF gate = "limited" THEN quiet(TooManyRequests)
       ELSE IF ~validMessage(m) THEN quiet(InvalidMessage)
       ELSE IF p.userMessage = "" THEN quiet(Reprompt(conversationId))
       ELSE IF gate = "throws" THEN quiet(ChatError)
       ELSE IF p.reset THEN KwReset(state, convId)
       ELSE LET f == KwFlow(state, p, convId, search)
            IN [resp |-> f.resp, convId |-> convId,
                stored |-> IF f.set \/ existed THEN f.local ELSE stored,
                searched |-> f.searched, query |-> f.query]

\* What the search of the keyword route can return: nothing, or up to 7 videos
KwBatches == {<<>>, <<[id |-> "v1", duration |-> "10:00"]>>}

NotAsked == [convId |-> NoId, asks |-> {}, count |-> 0]

\* The questions asked in a row, after a response to conversation convId
AskedAfter(convId, resp) ==
    IF convId \notin ConvIds \/ ~resp.success THEN asked
    ELSE IF resp.asks = {} THEN NotAsked
    ELSE IF resp.asks = asked.asks /\ convId = asked.convId
    THEN [asked EXCEPT !.count = IF @ < MaxAsked THEN @ + 1 ELSE @]
    ELSE [convId |-> convId, asks |-> resp.asks, count |-> 1]

\* What a turn leaves in `turn`
TurnRecord(m, convId, searched, query, search) ==
    [kind |-> "turn", message |-> m, convId |-> convId, searched |-> searched,
     query |-> query,
     search |-> IF ~searched THEN "none"
                ELSE IF search.kind = "throw" THEN "throw"
                ELSE IF Len(search.tutorials) = 0 THEN "empty" ELSE "found"]

\* Whether the handler reaches the call of searchTutorials on these inputs
KwSearches(m, conversationId, genId, gate) ==
    KeywordPOST(m, conversationId, genId, gate, [kind |-> "throw"]).searched

\* One turn of the keyword route: a request is handled to completion.
KeywordTurn ==
    /\ route = "keyword"
    /\ \E gate \in Gates, conversationId \in ConvIds \cup {NoId} :
        \E m \in BodiesRead(gate) :
        \E genId \in (IF conversationId = NoId THEN ConvIds ELSE {conversationId}) :
        \E search \in (IF KwSearches(m, conversationId, genId, gate)
                       THEN SearchOutcomes(KwBatches) ELSE {[kind |-> "throw"]}) :
        \E r \in {KeywordPOST(m, conversationId, genId, gate, search)} :
             /\ conversationStates' =
                    IF r.convId \in ConvIds
                    THEN [conversationStates EXCEPT ![r.convId] = r.stored]
                    ELSE conversationStates
             /\ response' = r.resp
             /\ turn' = TurnRecord(m, r.convId, r.searched, r.query, search)
                        @@ [gate |-> gate, before |-> conversationStates]
             /\ asked' = AskedAfter(r.convId, r.resp)
    /\ UNCHANGED <<db, requests, GEMINI_API_KEY, curation, route, turns>>

NoCuration == [applied |-> FALSE]

InitKeyword ==
    /\ GEMINI_API_KEY = FALSE
    /\ curation = NoCuration
    /\ route = "keyword"
    /\ conversationStates = [c \in ConvIds |-> KwAbsent]
    /\ response = NoResponse
    /\ turn = NoTurn
    /\ turns = 0
    /\ asked = NotAsked
    /\ db = NoDb
    /\ requests = NoRequests

NextKeyword == KeywordTurn

SpecKeyword == InitKeyword /\ [][NextKeyword]_vars

-----------------------------------------------------------------------------
\* Clarifying-questions dialogue controller (chat route, first generation)

SEARCH_KEYWORDS == {"find", "search", "looking for", "tutorial", "learn", "how to", "guide",
                    "video", "teach", "show me"}

FOLLOWUP_KEYWORDS == {"more", "another", "similar", "like that", "also", "other", "else",
                      "again", "advanced", "beginner"}

LANGUAGES == {"python", "javascript", "java", "c++", "rust", "go", "typescript", "react",
              "vue", "angular"}

MinWordLength == 3       \* words of length > 3 are significant
MinNewTopicWords == 2    \* more than two significant words make a clear message
MaxQuestions == 2        \* questions.slice(0, 2)
MinRequestLength == 10   \* lowerMessage.length > 10 counts as a request

RECURSIVE split(_)
\* s.split(/\s+/), without the empty strings a leading or trailing blank produces
split(s) ==
    LET t == trimStart(s)
        sp == IndexFrom(t, " ", 1)
    IN IF Len(t) = 0 THEN <<>>
       ELSE IF sp = 0 THEN <<t>>
       ELSE <<SubSeq(t, 1, sp - 1)>> \o split(From(t, sp + 1))

SignificantWords(s) == SelectSeq(split(s), LAMBDA w : Len(w) > MinWordLength)

\* A detector that looks at the word overlap before the follow-up keywords
isNewTopicOverlapFirst(message, previousQuery) ==
    LET lowerMessage == toLowerCase(message)
        lowerPrevious == toLowerCase(previousQuery)
        prevWords == Range(SignificantWords(lowerPrevious))
        msgWords == SignificantWords(lowerMessage)
        overlap == \E i \in 1..Len(msgWords) : msgWords[i] \in prevWords
    IN IF ~overlap /\ Len(msgWords) > MinNewTopicWords THEN TRUE
       ELSE IF \E kw \in FOLLOWUP_KEYWORDS : includes(lowerMessage, kw) THEN FALSE
       ELSE IF \E kw \in SEARCH_KEYWORDS : includes(lowerMessage, kw) THEN ~overlap
       ELSE FALSE

isNewTopic(message, previousQuery) ==
    LET lowerMessage == toLowerCase(message)
        lowerPrevious == toLowerCase(previousQuery)
        prevWords == Range(SignificantWords(lowerPrevious))
        msgWords == SignificantWords(lowerMessage)
        overlap == \E i \in 1..Len(msgWords) : msgWords[i] \in prevWords
    IN IF \E kw \in FOLLOWUP_KEYWORDS : includes(lowerMessage, kw) THEN FALSE
       ELSE IF ~overlap /\ Len(msgWords) > MinNewTopicWords THEN TRUE
       ELSE IF \E kw \in SEARCH_KEYWORDS : includes(lowerMessage, kw) THEN ~overlap
       ELSE FALSE

\* lib/youtube generateClarifyingQuestions: the slots its questions ask for, in order
generateClarifyingQuestions(query) ==
    LET lowerQuery == toLowerCase(query)
        foundLanguages == {lang \in LANGUAGES : includes(lowerQuery, lang)}
        language == IF foundLanguages = {}
                       /\ (includes(lowerQuery, "programming") \/ includes(lowerQuery, "coding")
                           \/ includes(lowerQuery, "development"))
                    THEN <<"topic">> ELSE <<>>
        level == IF ~includes(lowerQuery, "beginner") /\ ~includes(lowerQuery, "advanced")
                    /\ ~includes(lowerQuery, "intermediate")
                 THEN <<"skillLevel">> ELSE <<>>
        goal == IF ~includes(lowerQuery, "project") /\ ~includes(lowerQuery, "example")
                   /\ ~includes(lowerQuery, "build")
                THEN <<"goal">> ELSE <<>>
        questions == language \o level \o goal
    IN SubSeq(questions, 1, IF Len(questions) < MaxQuestions THEN Len(questions)
                            ELSE MaxQuestions)

ClAbsent == [stage |-> "absent", query |-> ""]
ClInitial == [stage |-> "initial", query |-> ""]

ClMessages == {"hi", "i want to learn cooking", "beginner", "python coding",
               "beginner python project", "now teach me guitar"}

\* Per message, what the handler computes from it alone
ClParsed == [m \in ClMessages |->
    LET sanitizedMessage == sanitizeInput(m)
        lowerMessage == toLowerCase(sanitizedMessage)
    IN [sanitizedMessage |-> sanitizedMessage,
        isSearchRequest |-> \E keyword \in SEARCH_KEYWORDS : includes(lowerMessage, keyword),
        long |-> Len(lowerMessage) > MinRequestLength,
        questions |-> generateClarifyingQuestions(sanitizedMessage)]]

ClSay(kind, asks, convId) ==
    [status |-> 200, success |-> TRUE, kind |-> kind, asks |-> asks, conversationId |-> convId]

\* if (state.stage === 'initial'): a response, or fall through with a new `state`
ClStageInitial(state, p, convId) ==
    IF p.isSearchRequest \/ p.long
    THEN IF Len(p.questions) > 0
         THEN [local |-> [stage |-> "clarifying", query |-> p.sanitizedMessage],
               set |-> TRUE, done |-> TRUE,
               resp |-> ClSay("clarifying_questions", Range(p.questions), convId)]
         ELSE [local |-> [stage |-> "searching", query |-> p.sanitizedMessage],
               set |-> FALSE, done |-> FALSE, resp |-> NoResponse]
    ELSE [local |-> state, set |-> FALSE, done |-> TRUE,
          resp |-> ClSay("hello", {"topic"}, convId)]

\* if (state.stage === 'searching' || state.stage === 'results')
ClStageSearch(state, p, convId, search) ==
    LET searchQuery == IF state.stage = "results"
                       THEN state.query \o " " \o p.sanitizedMessage ELSE state.query
    IN IF search.kind = "throw"
       THEN [local |-> state, set |-> FALSE, query |-> searchQuery,
             resp |-> [status |-> 500, success |-> FALSE, kind |-> "search_failed",
                       asks |-> {}]]
       ELSE IF Len(search.tutorials) = 0
       THEN [local |-> ClInitial, set |-> TRUE, query |-> searchQuery,
             resp |-> ClSay("no_results", {"topic"}, convId)]
       ELSE [local |-> [stage |-> "results", query |-> searchQuery], set |-> TRUE,
             query |-> searchQuery,
             resp |-> ClSay("results", {}, convId) @@ [tutorials |-> search.tutorials]]

\* The POST handler of the clarifying-questions route.  Every assignment to
\* `state` binds a new object, so the map changes only by conversationStates.set.
ClarifyPOST(m, conversationId, genId, gate, search) ==
    LET p == ClParsed[m]
        convId == IF conversationId = NoId THEN genId ELSE conversationId
        stored == conversationStates[convId]
        loaded == IF stored # ClAbsent THEN stored ELSE ClInitial
        quiet(resp) == [resp |-> resp, convId |-> conversationId, stored |-> stored,
                        searched |-> FALSE, query |-> "", newTopic |-> FALSE]
        newTopic == loaded.stage \in {"clarifying", "results"}
                    /\ isNewTopic(p.sanitizedMessage, loaded.query)
        state0 == IF newTopic THEN ClInitial ELSE loaded
        first == IF state0.stage = "initial" THEN ClStageInitial(state0, p, convId)
                 ELSE [local |-> state0, set |-> FALSE, done |-> FALSE, resp |-> NoResponse]
        state1 == IF first.local.stage = "clarifying"
                  THEN [stage |-> "searching",
                        query |-> first.local.query \o " " \o p.sanitizedMessage]
                  ELSE first.local
        found == ClStageSearch(state1, p, convId, search)
    IN IF gate = "limited" THEN quiet(TooManyRequests)
       ELSE IF ~validMessage(m) THEN quiet(InvalidMessage)
       ELSE IF gate = "throws" THEN quiet(ChatError)
       ELSE IF first.done
       THEN [resp |-> first.resp, convId |-> convId,
             stored |-> IF first.set THEN first.local ELSE stored,
             searched |-> FALSE, query |-> "", newTopic |-> newTopic]
       ELSE [resp |-> found.resp, convId |-> convId,
             stored |-> IF found.set THEN found.local ELSE stored,
             searched |-> TRUE, query |-> found.query, newTopic |-> newTopic]

ClSearches(m, conversationId, genId, gate) ==
    ClarifyPOST(m, conversationId, genId, gate, [kind |-> "throw"]).searched

\* One turn of the clarifying-questions route.
ClarifyTurn ==
    /\ route = "clarify"
    /\ turns < MaxTurns
    /\ \E gate \in Gates, conversationId \in ConvIds \cup {NoId} :
        \E m \in (IF gate = "limited" THEN {"hi"} ELSE ClMessages) :
        \E genId \in (IF conversationId = NoId THEN ConvIds ELSE {conversationId}) :
        \E search \in (IF ClSearches(m, conversationId, genId, gate)
                       THEN SearchOutcomes(KwBatches) ELSE {[kind |-> "throw"]}) :
        \E r \in {ClarifyPOST(m, conversationId, genId, gate, search)} :
             /\ conversationStates' =
                    IF r.convId \in ConvIds
                    THEN [conversationStates EXCEPT ![r.convId] = r.stored]
                    ELSE conversationStates
             /\ response' = r.resp
             /\ turn' = TurnRecord(m, r.convId, r.searched, r.query, search)
             /\ asked' = AskedAfter(r.convId, r.resp)
    /\ turns' = turns + 1
    /\ UNCHANGED <<db, requests, GEMINI_API_KEY, curation, route>>

\* Either generation of the dialogue controller is deployed.
InitDialogue ==
    /\ GEMINI_API_KEY = FALSE
    /\ curation = NoCuration
    /\ route \in {"keyword", "clarify"}
    /\ conversationStates = [c \in ConvIds |-> IF route = "keyword" THEN KwAbsent ELSE ClAbsent]
    /\ response = NoResponse
    /\ turn = NoTurn
    /\ turns = 0
    /\ asked = NotAsked
    /\ db = NoDb
    /\ requests = NoRequests

NextDialogue == KeywordTurn \/ ClarifyTurn

SpecDialogue == InitDialogue /\ [][NextDialogue]_vars

-----------------------------------------------------------------------------
\* Gemini-backed chat turn handler (app/api/chat/message/route.ts)
\* A turn is in flight from GmReceive until it responds; pc names the await it
\* is suspended at.  Turns are handled one at a time.

GmAbsent == [absent |-> TRUE]
GmFresh == [messages |-> <<>>, searchReady |-> FALSE, searchQuery |-> None,
            skillLevel |-> None, goal |-> None]

GmMessages == {"", " <b></b> ", "hi", "python"}

\* What the model answers to the conversation prompt: the call throws, or the text
\* carries a [SEARCH_READY: topic="..."|level="..."|goal="..."] marker or not.
NoMarker == [present |-> FALSE]
ChatReplies ==
    {[kind |-> "throw"]}
    \cup {[kind |-> "text", text |-> "Sure!", marker |-> NoMarker]}
    \cup {[kind |-> "text", text |-> "Sure!",
           marker |-> [present |-> TRUE, topic |-> "python", level |-> l, goal |-> "project"]] :
              l \in {"beginner", "expert"}}

\* parseSearchIntent: the marker's three groups, and the text without the marker
parseSearchIntent(reply) ==
    IF reply.marker.present
    THEN [searchReady |-> TRUE, topic |-> reply.marker.topic, level |-> reply.marker.level,
          goal |-> reply.marker.goal, cleanResponse |-> reply.text]
    ELSE [searchReady |-> FALSE, topic |-> None, level |-> None, goal |-> None,
          cleanResponse |-> reply.text]

\* let query = parsed.topic + ' tutorial' plus the level modifier
GmQuery(parsed) ==
    parsed.topic \o " tutorial"
    \o (CASE parsed.level = "beginner" -> " for beginners"
          [] parsed.level = "advanced" -> " advanced"
          [] OTHER -> "")

\* The batches searchTutorials(query, 15) returns in the model
GmBatches == {<<>>, <<[id |-> "v1", duration |-> "10:00"]>>,
              <<[id |-> "v1", duration |-> "10:00"], [id |-> "v2", duration |-> "undefined"]>>}

\* The answers of the reasoning service to the curation prompt in the model
GmServiceOutputs == {o \in ServiceOutputs : (o.kind = "json" /\ o.hasStages) => Len(o.stages) <= 1}

Idle == [kind |-> "none", pc |-> "idle"]

\* `state` aliases the stored object when conversationStates.get found one: its
\* mutations then show in the map at once.
GmWrite(t, state) ==
    IF t.existed THEN [conversationStates EXCEPT ![t.convId] = state] ELSE conversationStates

\* conversationStates.set(convId, state)
\* A handler that stores only what was said in this turn
GmSetThisTurn(t, state) ==
    [conversationStates EXCEPT ![t.convId] =
        [state EXCEPT !.messages = SubSeq(@, Len(@) - 1, Len(@))]]

\* conversationStates.set(convId, state)
GmSet(t, state) == [conversationStates EXCEPT ![t.convId] = state]

GmSay(kind, convId) ==
    [status |-> 200, success |-> TRUE, kind |-> kind, conversationId |-> convId,
     hasTutorials |-> FALSE, tutorials |-> <<>>, learningPath |-> NullPath,
     hasLearningPath |-> FALSE, noTutorialsNote |-> FALSE]

Finished(t) == [t EXCEPT !.pc = "idle"]

\* The turn once it has called service and awaits it at pc
GmCall(t, pc, service) == [t EXCEPT !.pc = pc, !.calls = Append(@, service)]

\* A handler that calls searchTutorials again after a failure
GmSearchRetried(t) == [GmCall(t, "search", "searchTutorials") EXCEPT !.stage = "search_failed"]

\* catch (searchError): the turn ends with the invitation to try again
GmSearchFailed(t) == [Finished(t) EXCEPT !.stage = "search_failed"]

\* From the start of POST to the call of model.generateContent
GmReceive ==
    /\ route = "gemini"
    /\ turn.pc = "idle"
    /\ turns < MaxTurns
    /\ turns' = turns + 1
    /\ \E gate \in Gates, conversationId \in ConvIds \cup {NoId} :
        \E m \in (IF gate = "limited" THEN {"hi"} ELSE GmMessages) :
        \E genId \in (IF conversationId = NoId THEN ConvIds ELSE {conversationId}) :
          LET userMessage == trim(sanitizeInput(m))
              convId == IF conversationId = NoId THEN genId ELSE conversationId
              existed == conversationStates[convId] # GmAbsent
              loaded == IF existed THEN conversationStates[convId] ELSE GmFresh
              state == [loaded EXCEPT !.messages =
                            Append(@, [role |-> "user", content |-> userMessage])]
              t == [kind |-> "turn", pc |-> "chat", message |-> m, convId |-> convId,
                    existed |-> existed, state |-> state, stage |-> "received",
                    gate |-> gate, before |-> conversationStates, calls |-> <<>>]
              quiet(resp) ==
                  /\ response' = resp
                  /\ turn' = [kind |-> "turn", pc |-> "idle", message |-> m,
                              convId |-> conversationId, stage |-> "rejected",
                              gate |-> gate, before |-> conversationStates]
                  /\ UNCHANGED conversationStates
          IN IF gate = "limited" THEN quiet(TooManyRequests)
             ELSE IF ~validMessage(m) THEN quiet(InvalidMessage)
             ELSE IF userMessage = ""
             THEN quiet(Reprompt(conversationId) @@ GmSay("reprompt", conversationId))
             ELSE IF gate = "throws" THEN quiet(ChatError)
             ELSE IF ~GEMINI_API_KEY
             THEN /\ response' = GmSay("no_api_key", convId)
                  /\ turn' = Finished(t)
                  /\ conversationStates' = GmWrite(t, state)
             ELSE /\ response' = NoResponse
                  /\ turn' = GmCall(t, "chat", "generateContent")
                  /\ conversationStates' = GmWrite(t, state)
    /\ UNCHANGED <<db, requests, GEMINI_API_KEY, curation, route, asked>>

\* model.generateContent(prompt) settles: up to the call of searchTutorials
GmChatReply ==
    /\ route = "gemini"
    /\ turn.pc = "chat"
    /\ \E reply \in ChatReplies :
        IF reply.kind = "throw"
        THEN /\ response' = GmSay("gemini_error", turn.convId)
             /\ turn' = [Finished(turn) EXCEPT !.stage = "chat_failed"]
             /\ UNCHANGED conversationStates
        ELSE LET parsed == parseSearchIntent(reply)
                 said == [turn.state EXCEPT !.messages =
                             Append(@, [role |-> "assistant", content |-> parsed.cleanResponse])]
             IN IF parsed.searchReady /\ parsed.topic # ""
                THEN LET state == [said EXCEPT !.searchReady = TRUE,
                                               !.searchQuery = parsed.topic,
                                               !.skillLevel = parsed.level,
                                               !.goal = parsed.goal]
                     IN /\ response' = NoResponse
                        /\ turn' = [GmCall(turn, "search", "searchTutorials") EXCEPT
                                        !.state = state, !.stage = "searching"]
                                   @@ [parsed |-> parsed, query |-> GmQuery(parsed)]
                        /\ conversationStates' = GmWrite(turn, state)
                ELSE /\ response' = GmSay("chat", turn.convId)
                     /\ turn' = [Finished(turn) EXCEPT !.state = said, !.stage = "chatted"]
                     /\ conversationStates' = GmSet(turn, said)
    /\ UNCHANGED <<db, requests, GEMINI_API_KEY, curation, route, turns, asked>>

\* searchTutorials(query, 15) settles: up to the call of analyzeAndCurateVideos
GmSearchReply ==
    /\ route = "gemini"
    /\ turn.pc = "search"
    /\ \E search \in SearchOutcomes(GmBatches) :
        IF search.kind = "throw"
        THEN /\ response' = GmSay("search_issue", turn.convId)
             /\ turn' = GmSearchFailed(turn)
             /\ UNCHANGED conversationStates
        ELSE IF Len(search.tutorials) > 0
        THEN /\ response' = NoResponse
             /\ turn' = [GmCall(turn, "curate", "analyzeAndCurateVideos") EXCEPT
                              !.stage = "curating"]
                        @@ [tutorials |-> search.tutorials]
             /\ UNCHANGED conversationStates
        ELSE /\ response' = [GmSay("chat", turn.convId) EXCEPT
                                !.hasTutorials = TRUE, !.noTutorialsNote = TRUE]
             /\ turn' = [Finished(turn) EXCEPT !.stage = "searched"]
                        @@ [tutorials |-> search.tutorials]
             /\ conversationStates' = GmSet(turn, turn.state)
    /\ UNCHANGED <<db, requests, GEMINI_API_KEY, curation, route, turns, asked>>

\* The body of the response once the search and the curation are over:
\* text with the formatted path when learningPath has stages;
\* tutorials: learningPath ? undefined : tutorials; learningPath as it is.
GmResultResponse(convId, tutorials, learningPath) ==
    [GmSay("chat", convId) EXCEPT
        !.hasTutorials = (learningPath = NullPath),
        !.tutorials = IF learningPath = NullPath THEN tutorials ELSE <<>>,
        !.learningPath = learningPath,
        !.hasLearningPath = (learningPath # NullPath /\ Len(learningPath.stages) > 0)]

\* analyzeAndCurateVideos settles: up to the response
GmCurateReply ==
    /\ route = "gemini"
    /\ turn.pc = "curate"
    /\ \E svc \in GmServiceOutputs :
        LET curated == analyzeAndCurateVideos(GEMINI_API_KEY, turn.tutorials, svc)
            \* catch (curateError) { learningPath = null }
            learningPath == IF curated.result = Thrown THEN NullPath ELSE curated.result
        IN /\ response' = GmResultResponse(turn.convId, turn.tutorials, learningPath)
           /\ turn' = [Finished(turn) EXCEPT !.stage = "curated"]
                      @@ [service |-> svc.kind, curated |-> curated.result]
           /\ conversationStates' = GmSet(turn, turn.state)
    /\ UNCHANGED <<db, requests, GEMINI_API_KEY, curation, route, turns, asked>>

InitGemini ==
    /\ GEMINI_API_KEY \in BOOLEAN
    /\ curation = NoCuration
    /\ route = "gemini"
    /\ conversationStates = [c \in ConvIds |-> GmAbsent]
    /\ response = NoResponse
    /\ turn = Idle
    /\ turns = 0
    /\ asked = NotAsked
    /\ db = NoDb
    /\ requests = NoRequests

NextGemini == GmReceive \/ GmChatReply \/ GmSearchReply \/ GmCurateReply

SpecGemini == InitGemini /\ [][NextGemini]_vars

-----------------------------------------------------------------------------
\* The chat route as deployed: the keyword-driven handler or the Gemini-backed one

InitChat == InitKeyword \/ InitGemini

NextChat == NextKeyword \/ NextGemini

SpecChat == InitChat /\ [][NextChat]_vars

-----------------------------------------------------------------------------
\* Progress Tracker (POST /api/learning-path/progress)

Users == {"u1", "u2"}
PathIds == {"p1", "p2"}
VideoIds == {"v1", "v2"}
Undefined == "undefined"     \* a field the request body does not carry

\* The accessToken cookie: absent, not verifiable, a guest's or a user's
Callers ==
    {[token |-> "absent"], [token |-> "invalid"], [token |-> "guest", userId |-> "guest"]}
    \cup {[token |-> "user", userId |-> u] : u \in Users}

\* The values of `watched` in the body: true, false or missing
WatchedValues == {"true", "false", Undefined}

ProgressBodies ==
    [learningPathId : PathIds \cup {Undefined}, videoId : VideoIds \cup {Undefined},
     watched : WatchedValues]

\* What the database does during the request: every query succeeds, a query before
\* the upsert rejects, or the findMany after the upsert rejects
DbOutcomes == {"ok", "throwsEarly", "throwsLate"}

NoRow == [exists |-> FALSE]
NoTime == 0                  \* watchedAt: null

\* Math.round((watchedCount / totalVideos) * 100), 0 when totalVideos is 0
progressPercent(watchedCount, totalVideos) ==
    IF totalVideos > 0 THEN (200 * watchedCount + totalVideos) \div (2 * totalVideos) ELSE 0

\* Mutant: the query does not filter on the owner.
findFirstAnyOwner(savedLearningPath, learningPathId, userId) ==
    IF learningPathId \in DOMAIN savedLearningPath
    THEN savedLearningPath[learningPathId] @@ [found |-> TRUE]
    ELSE [found |-> FALSE]

\* db.savedLearningPath.findFirst({ where: { id: learningPathId, userId } })
findFirstOwned(savedLearningPath, learningPathId, userId) ==
    IF learningPathId \in DOMAIN savedLearningPath
       /\ savedLearningPath[learningPathId].userId = userId
    THEN savedLearningPath[learningPathId] @@ [found |-> TRUE]
    ELSE [found |-> FALSE]

\* Mutant: the update branch flips the stored flag.
upsertToggles(row, userId, watched, now) ==
    IF row.exists
    THEN [row EXCEPT !.watched = ~row.watched,
                     !.watchedAt = IF watched = "true" THEN now ELSE NoTime]
    ELSE [exists |-> TRUE, userId |-> userId, watched |-> (watched = "true"),
          watchedAt |-> IF watched = "true" THEN now ELSE NoTime]

\* db.videoProgress.upsert: the row stored under (learningPathId, videoId) afterwards
upsert(row, userId, watched, now) ==
    IF row.exists
    THEN [row EXCEPT !.watched = (watched = "true"),
                     !.watchedAt = IF watched = "true" THEN now ELSE NoTime]
    ELSE [exists |-> TRUE, userId |-> userId, watched |-> (watched = "true"),
          watchedAt |-> IF watched = "true" THEN now ELSE NoTime]

\* allProgress.filter(p => p.watched).length over findMany({ where: { learningPathId } })
watchedCountOf(videoProgress, learningPathId) ==
    Cardinality({v \in VideoIds : videoProgress[<<learningPathId, v>>].exists
                                  /\ videoProgress[<<learningPathId, v>>].watched})

ProgressFailure(status, kind) == [status |-> status, success |-> FALSE, kind |-> kind]

\* The POST handler: the response and the videoProgress table afterwards
setWatched(caller, body, outcome, now) ==
    LET unchanged(resp) == [resp |-> resp, videoProgress |-> db.videoProgress]
    IN IF caller.token = "absent" THEN unchanged(ProgressFailure(401, "log_in"))
       ELSE IF caller.token = "invalid" \/ caller.token = "guest"
       THEN unchanged(ProgressFailure(401, "create_account"))
       ELSE IF body.learningPathId = Undefined \/ body.videoId = Undefined
       THEN unchanged(ProgressFailure(400, "ids_required"))
       ELSE IF outcome = "throwsEarly" THEN unchanged(ProgressFailure(500, "failed"))
       ELSE LET learningPath == findFirstOwned(db.savedLearningPath, body.learningPathId,
                                               caller.userId)
                key == <<body.learningPathId, body.videoId>>
            IN IF ~learningPath.found THEN unchanged(ProgressFailure(404, "not_found"))
               ELSE LET progress == upsert(db.videoProgress[key], caller.userId,
                                           body.watched, now)
                        table == [db.videoProgress EXCEPT ![key] = progress]
                        watchedCount == watchedCountOf(table, body.learningPathId)
                    IN IF outcome = "throwsLate"
                       THEN [resp |-> ProgressFailure(500, "failed"), videoProgress |-> table]
                       ELSE [resp |-> [status |-> 200, success |-> TRUE, kind |-> "progress",
                                       videoId |-> body.videoId,
                                       watched |-> progress.watched,
                                       totalProgress |->
                                           progressPercent(watchedCount, learningPath.totalVideos),
                                       watchedCount |-> watchedCount,
                                       totalVideos |-> learningPath.totalVideos],
                             videoProgress |-> table]

\* Whether the handler reaches the database on these inputs
ReachesDb(caller, body) ==
    caller.token = "user" /\ body.learningPathId # Undefined /\ body.videoId # Undefined

\* One request to POST /api/learning-path/progress, handled to completion
SetWatched ==
    /\ route = "progress"
    /\ turns < MaxRequests
    /\ turns' = turns + 1
    /\ \E caller \in Callers, body \in ProgressBodies :
        \E outcome \in (IF ReachesDb(caller, body) THEN DbOutcomes ELSE {"ok"}) :
        \E r \in {setWatched(caller, body, outcome, turns + 1)} :
            /\ db' = [db EXCEPT !.videoProgress = r.videoProgress]
            /\ response' = r.resp
            /\ turn' = [kind |-> "progress", caller |-> caller, body |-> body,
                        before |-> db.videoProgress]
    /\ UNCHANGED <<GEMINI_API_KEY, curation, route, conversationStates, asked, requests>>

\* Every user has saved one learning path, u2 one that lists no video; no progress
\* is recorded yet.
InitProgress ==
    /\ GEMINI_API_KEY = FALSE
    /\ curation = NoCuration
    /\ route = "progress"
    /\ conversationStates = <<>>
    /\ response = NoResponse
    /\ turn = NoTurn
    /\ turns = 0
    /\ asked = NotAsked
    /\ \E n \in 1..MaxTotalVideos :
        db = [kind |-> "progress",
              savedLearningPath |-> [p \in PathIds |->
                  IF p = "p1" THEN [userId |-> "u1", totalVideos |-> n]
                  ELSE [userId |-> "u2", totalVideos |-> 0]],
              videoProgress |-> [k \in PathIds \X VideoIds |-> NoRow]]
    /\ requests = NoRequests

NextProgress == SetWatched

SpecProgress == InitProgress /\ [][NextProgress]_vars

\* POST /api/learning-path/save.  The body carries a learning path or none; a
\* path is saved under its (topic, userLevel, userGoal), here that of the path the
\* caller has saved already, with the totalVideos it has now.
SaveBodies ==
    {[learningPath |-> Undefined]}
    \cup [learningPath : PathIds, totalVideos : 0..MaxTotalVideos]

\* db.savedLearningPath.findFirst({ where: { userId, topic, userLevel, userGoal } })
findFirstSaved(savedLearningPath, learningPath, userId) ==
    IF savedLearningPath[learningPath].userId = userId
    THEN [found |-> TRUE, id |-> learningPath] ELSE [found |-> FALSE]

\* The POST handler of the save route: the response and the savedLearningPath
\* table afterwards
savePath(caller, body, outcome) ==
    LET unchanged(resp) == [resp |-> resp, savedLearningPath |-> db.savedLearningPath]
    IN IF caller.token = "absent" THEN unchanged(ProgressFailure(401, "log_in"))
       ELSE IF caller.token = "invalid" \/ caller.token = "guest"
       THEN unchanged(ProgressFailure(401, "create_account"))
       ELSE IF body.learningPath = Undefined
       THEN unchanged(ProgressFailure(400, "path_required"))
       ELSE IF outcome # "ok" THEN unchanged(ProgressFailure(500, "failed"))
       ELSE LET existing == findFirstSaved(db.savedLearningPath, body.learningPath,
                                           caller.userId)
            IN [resp |-> [status |-> 200, success |-> TRUE, kind |-> "saved",
                          learningPathId |-> existing.id],
                savedLearningPath |->
                    [db.savedLearningPath EXCEPT
                        ![existing.id].totalVideos = body.totalVideos]]

\* The stats GET /api/learning-path/progress and GET /api/learning-path/save give
\* for a saved path
progressStats(learningPathId) ==
    LET watchedCount == watchedCountOf(db.videoProgress, learningPathId)
        totalVideos == db.savedLearningPath[learningPathId].totalVideos
    IN [watchedCount |-> watchedCount, totalVideos |-> totalVideos,
        progressPercent |-> progressPercent(watchedCount, totalVideos)]

\* One request to POST /api/learning-path/save, handled to completion
SaveLearningPath ==
    /\ route = "progress"
    /\ turns < MaxRequests
    /\ turns' = turns + 1
    /\ \E caller \in Callers :
        \E body \in {b \in SaveBodies :
                        (caller.token = "user" /\ b.learningPath # Undefined)
                        => db.savedLearningPath[b.learningPath].userId = caller.userId} :
        \E outcome \in (IF caller.token = "user" /\ body.learningPath # Undefined
                        THEN {"ok", "throwsEarly"} ELSE {"ok"}) :
        \E r \in {savePath(caller, body, outcome)} :
            /\ db' = [db EXCEPT !.savedLearningPath = r.savedLearningPath]
            /\ response' = r.resp
            /\ turn' = [kind |-> "save", caller |-> caller, body |-> body,
                        before |-> db.videoProgress]
    /\ UNCHANGED <<GEMINI_API_KEY, curation, route, conversationStates, asked, requests>>

NextTracker == SetWatched \/ SaveLearningPath

SpecTracker == InitProgress /\ [][NextTracker]_vars

-----------------------------------------------------------------------------
\* Chat rate limit (lib/rate-limit checkRateLimit / recordAttempt, as the chat
\* handlers call them for one client key `chat:<ip>`)
\* Time is kept relative to the last write of the key's entry, which sets windowStart
\* (and blockedUntil, when it sets one) from the same `now`:
\*   fresh         : less than windowMs (1 min) have passed since
\*   windowExpired : more than windowMs, less than blockDurationMs (5 min)
\*   blockExpired  : more than blockDurationMs

maxAttempts == 30            \* RATE_LIMITS.chat.maxAttempts

Slots == 1..MaxInFlight

NoEntry == [exists |-> FALSE]
IdleRequest == [pc |-> "idle"]

\* entry.windowStart < windowExpiry
WindowExpired(entry) == entry.exists /\ entry.age # "fresh"

\* entry.blockedUntil && entry.blockedUntil > now
Blocked(entry) == entry.exists /\ entry.blocked /\ entry.age # "blockExpired"

\* The verdict of checkRateLimit on the entry findUnique returned
checkVerdict(entry) ==
    IF ~entry.exists THEN "allowed"
    ELSE IF Blocked(entry) THEN "blocked"
    ELSE IF WindowExpired(entry) THEN "reset"
    ELSE IF entry.count >= maxAttempts THEN "limited"
    ELSE "allowed"

\* The entry recordAttempt writes, from the entry its findUnique returned
recordedEntry(entry) ==
    IF ~entry.exists \/ WindowExpired(entry)
    THEN [exists |-> TRUE, count |-> 1, blocked |-> FALSE, age |-> "fresh"]
    ELSE [exists |-> TRUE, count |-> entry.count + 1,
          blocked |-> (entry.count + 1 >= maxAttempts), age |-> "fresh"]

\* checkRateLimit up to its verdict: findUnique, then the tests on what it returned
RlCheck(i) ==
    /\ requests[i].pc = "idle"
    /\ turns < MaxStarted
    /\ turns' = turns + 1
    /\ LET verdict == checkVerdict(db.rateLimitEntry)
       IN /\ requests' = [requests EXCEPT ![i] =
                CASE verdict = "allowed" -> [pc |-> "allowed"]
                  [] verdict = "reset" -> [pc |-> "resetting"]
                  [] OTHER -> IdleRequest]
          /\ response' = IF verdict \in {"blocked", "limited"} THEN TooManyRequests
                         ELSE NoResponse
          /\ turn' = IF verdict \in {"blocked", "limited"}
                     THEN [turn EXCEPT !.rejected = TRUE] ELSE turn
    /\ UNCHANGED <<GEMINI_API_KEY, curation, route, conversationStates, asked, db>>

\* checkRateLimit: the update that resets an expired window, then allowed
RlCheckReset(i) ==
    /\ requests[i].pc = "resetting"
    /\ db' = [db EXCEPT !.rateLimitEntry =
                [exists |-> TRUE, count |-> 0, blocked |-> FALSE, age |-> "fresh"]]
    /\ requests' = [requests EXCEPT ![i] = [pc |-> "allowed"]]
    /\ response' = NoResponse
    /\ UNCHANGED <<GEMINI_API_KEY, curation, route, conversationStates, turn, turns, asked>>

\* The handler returns before recordAttempt: the body fails the schema (400) or the
\* message is empty once sanitised (re-prompt)
RlLeave(i) ==
    /\ requests[i].pc = "allowed"
    /\ requests' = [requests EXCEPT ![i] = IdleRequest]
    /\ response' \in {InvalidMessage, Reprompt(NoId)}
    /\ UNCHANGED <<GEMINI_API_KEY, curation, route, conversationStates, turn, turns, asked, db>>

\* recordAttempt: findUnique
RlRecordRead(i) ==
    /\ requests[i].pc = "allowed"
    /\ requests' = [requests EXCEPT ![i] = [pc |-> "recording", entry |-> db.rateLimitEntry]]
    /\ response' = NoResponse
    /\ UNCHANGED <<GEMINI_API_KEY, curation, route, conversationStates, turn, turns, asked, db>>

\* recordAttempt: create or update from the entry that was read; the handler then
\* goes on to process the message.  create rejects when the key exists by now.
RlRecordWrite(i) ==
    /\ requests[i].pc = "recording"
    /\ requests' = [requests EXCEPT ![i] = IdleRequest]
    /\ IF ~requests[i].entry.exists /\ db.rateLimitEntry.exists
       THEN /\ response' = ChatError
            /\ UNCHANGED <<db, turn>>
       ELSE /\ db' = [db EXCEPT !.rateLimitEntry = recordedEntry(requests[i].entry)]
            /\ response' = [status |-> 200, success |-> TRUE, kind |-> "processed", asks |-> {}]
            /\ turn' = [turn EXCEPT !.admitted = @ + 1,
                                    !.afterBlock = @ \/ Blocked(db.rateLimitEntry)]
    /\ UNCHANGED <<GEMINI_API_KEY, curation, route, conversationStates, turns, asked>>

\* Time passes with no write to the entry.  Once windowMs have passed since the last
\* recorded attempt, the messages admitted so far belong to a window that is over.
TimePasses ==
    /\ db.rateLimitEntry.exists
    /\ db.rateLimitEntry.age # "blockExpired"
    /\ db' = [db EXCEPT !.rateLimitEntry.age =
                IF @ = "fresh" THEN "windowExpired" ELSE "blockExpired"]
    /\ turn' = [kind |-> "window", admitted |-> 0, rejected |-> FALSE, afterBlock |-> FALSE]
    /\ UNCHANGED <<GEMINI_API_KEY, curation, route, conversationStates, response, turns,
                   asked, requests>>

\* The key has had n messages admitted one after the other in the current window
\* (n < maxAttempts), which leaves its entry with count n; no request is in flight.
InitRateLimit ==
    /\ GEMINI_API_KEY = FALSE
    /\ curation = NoCuration
    /\ route = "chat"
    /\ conversationStates = <<>>
    /\ response = NoResponse
    /\ turns = 0
    /\ asked = NotAsked
    /\ \E n \in 0..(maxAttempts - 1) :
        /\ turn = [kind |-> "window", admitted |-> n, rejected |-> FALSE, afterBlock |-> FALSE]
        /\ db = [kind |-> "rateLimit",
                 rateLimitEntry |-> IF n = 0 THEN NoEntry
                                    ELSE [exists |-> TRUE, count |-> n, blocked |-> FALSE,
                                          age |-> "fresh"]]
    /\ requests = [i \in Slots |-> IdleRequest]

NextRateLimit ==
    \/ \E i \in Slots : RlCheck(i)
    \/ \E i \in Slots : RlCheckReset(i)
    \/ \E i \in Slots : RlLeave(i)
    \/ \E i \in Slots : RlRecordRead(i)
    \/ \E i \in Slots : RlRecordWrite(i)
    \/ TimePasses

SpecRateLimit == InitRateLimit /\ [][NextRateLimit]_vars

-----------------------------------------------------------------------------
\* The keyword-driven handler with requests of one conversation in flight together.
\* The handler runs from await to await; between two awaits nothing else runs.
\* conversationStates holds the Map and the objects it and the handlers refer to:
\*   objects : the ConversationState objects created so far
\*   map     : per conversation id the index of the object stored, 0 when none
\* turn holds the state the conversation would have if the turns had been handled
\* one after the other in the order they arrived.

IvMessages == {"python", "Beginner", "build an app", "start over"}

NoObject == 0

\* The state stored for conversation c, KwAbsent when the Map has no entry
StoredState(c) ==
    IF conversationStates.map[c] = NoObject THEN KwAbsent
    ELSE conversationStates.objects[conversationStates.map[c]]

\* One turn handled alone on the stored state s: the state stored afterwards
SerialTurn(s, m, convId, search) ==
    LET p == Parsed[m]
        existed == s # KwAbsent
    IN IF p.reset THEN KwGreeting
       ELSE LET f == KwFlow(IF existed THEN s ELSE KwGreeting, p, convId, search)
            IN IF f.set \/ existed THEN f.local ELSE s

\* Lines 126-140: the request is read, `state` is bound to the stored object or to a
\* new { stage: 'greeting' }, and recordAttempt is awaited.
IvArrive(i) ==
    /\ requests[i].pc = "idle"
    /\ turns < MaxStarted
    /\ turns' = turns + 1
    /\ \E m \in IvMessages, convId \in ConvIds, search \in SearchOutcomes(KwBatches) :
        LET stored == conversationStates.map[convId]
            fresh == Len(conversationStates.objects) + 1
        IN /\ conversationStates' =
                IF stored = NoObject
                THEN [conversationStates EXCEPT !.objects = Append(@, KwGreeting)]
                ELSE conversationStates
           /\ requests' = [requests EXCEPT ![i] =
                [pc |-> "record", message |-> m, convId |-> convId, search |-> search,
                 state |-> IF stored = NoObject THEN fresh ELSE stored]]
           /\ turn' = [turn EXCEPT !.serial[convId] = SerialTurn(@, m, convId, search)]
    /\ response' = NoResponse
    /\ UNCHANGED <<GEMINI_API_KEY, curation, route, asked, db>>

\* Lines 143-241: the reset check and the stages, up to a response or to the call of
\* searchTutorials.  Assignments to fields of `state` change the object in place.
IvResume(i) ==
    /\ requests[i].pc = "record"
    /\ LET r == requests[i]
           p == Parsed[r.message]
           state == conversationStates.objects[r.state]
           first == CASE state.stage = "greeting" -> KwStageGreeting(state, p, r.convId)
                      [] state.stage = "got_topic" -> KwStageGotTopic(state, p, r.convId)
                      [] state.stage = "got_level" -> KwStageGotLevel(state, p, r.convId)
                      [] OTHER -> [local |-> state, set |-> FALSE, done |-> FALSE,
                                   resp |-> NoResponse]
       IN IF p.reset
          THEN /\ conversationStates' =
                    [objects |-> Append(conversationStates.objects, KwGreeting),
                     map |-> [conversationStates.map EXCEPT ![r.convId] =
                                 Len(conversationStates.objects) + 1]]
               /\ response' = KwReset(state, r.convId).resp
               /\ requests' = [requests EXCEPT ![i] = IdleRequest]
          ELSE /\ conversationStates' =
                    [objects |-> [conversationStates.objects EXCEPT ![r.state] = first.local],
                     map |-> IF first.set
                             THEN [conversationStates.map EXCEPT ![r.convId] = r.state]
                             ELSE conversationStates.map]
               /\ response' = first.resp
               /\ requests' = [requests EXCEPT ![i] =
                                  IF first.done THEN IdleRequest ELSE [r EXCEPT !.pc = "search"]]
    /\ UNCHANGED <<GEMINI_API_KEY, curation, route, turn, turns, asked, db>>

\* Lines 241-294: searchTutorials settles
IvSearchDone(i) ==
    /\ requests[i].pc = "search"
    /\ LET r == requests[i]
           p == Parsed[r.message]
           f == KwStageSearch(conversationStates.objects[r.state], p, r.convId, r.search)
       IN /\ conversationStates' =
                IF r.search.kind = "throw" THEN conversationStates
                ELSE IF Len(r.search.tutorials) = 0
                THEN [objects |-> Append(conversationStates.objects, f.local),
                      map |-> [conversationStates.map EXCEPT ![r.convId] =
                                  Len(conversationStates.objects) + 1]]
                ELSE [objects |-> [conversationStates.objects EXCEPT ![r.state] = f.local],
                      map |-> [conversationStates.map EXCEPT ![r.convId] = r.state]]
          /\ response' = f.resp
    /\ requests' = [requests EXCEPT ![i] = IdleRequest]
    /\ UNCHANGED <<GEMINI_API_KEY, curation, route, turn, turns, asked, db>>

InitInterleaved ==
    /\ GEMINI_API_KEY = FALSE
    /\ curation = NoCuration
    /\ route = "keyword"
    /\ conversationStates = [objects |-> <<>>, map |-> [c \in ConvIds |-> NoObject]]
    /\ response = NoResponse
    /\ turn = [kind |-> "serial", serial |-> [c \in ConvIds |-> KwAbsent]]
    /\ turns = 0
    /\ asked = NotAsked
    /\ db = NoDb
    /\ requests = [i \in Slots |-> IdleRequest]

NextInterleaved ==
    \/ \E i \in Slots : IvArrive(i)
    \/ \E i \in Slots : IvResume(i)
    \/ \E i \in Slots : IvSearchDone(i)

SpecInterleaved == InitInterleaved /\ [][NextInterleaved]_vars

-----------------------------------------------------------------------------
\* Direct application of isNewTopic to utterances made of known phrases

\* A phrase as typed, whether it holds a follow-up keyword, and its words longer
\* than three characters in lower case
Phrases ==
    {[text |-> "now",       followUp |-> FALSE, words |-> <<>>],
     [text |-> "teach",     followUp |-> FALSE, words |-> <<"teach">>],
     [text |-> "Guitar",    followUp |-> FALSE, words |-> <<"guitar">>],
     [text |-> "chords",    followUp |-> FALSE, words |-> <<"chords">>],
     [text |-> "React",     followUp |-> FALSE, words |-> <<"react">>],
     [text |-> "more",      followUp |-> TRUE,  words |-> <<"more">>],
     [text |-> "like that", followUp |-> TRUE,  words |-> <<"like", "that">>],
     [text |-> "elsewhere", followUp |-> TRUE,  words |-> <<"elsewhere">>]}

\* The stored queries the utterance is compared with
PreviousQueries == {<<[text |-> "react", followUp |-> FALSE, words |-> <<"react">>]>>,
                    <<[text |-> "React", followUp |-> FALSE, words |-> <<"react">>],
                      [text |-> "hooks", followUp |-> FALSE, words |-> <<"hooks">>]>>,
                    <<[text |-> "guitar", followUp |-> FALSE, words |-> <<"guitar">>],
                      [text |-> "for", followUp |-> FALSE, words |-> <<>>],
                      [text |-> "beginners", followUp |-> TRUE, words |-> <<"beginners">>]>>}

RECURSIVE Typed(_)
\* The phrases as one utterance, a blank between two phrases
Typed(phrases) ==
    IF Len(phrases) = 0 THEN ""
    ELSE IF Len(phrases) = 1 THEN phrases[1].text
    ELSE phrases[1].text \o " " \o Typed(Tail(phrases))

\* isNewTopic(sanitizedMessage, state.query) is evaluated once
ApplyIsNewTopic ==
    /\ route = "isNewTopic"
    /\ ~turn.applied
    /\ turn' = [turn EXCEPT !.applied = TRUE,
                            !.result = isNewTopic(Typed(turn.message), Typed(turn.previous))]
    /\ UNCHANGED <<db, requests, GEMINI_API_KEY, curation, route, conversationStates,
                   response, turns, asked>>

InitNewTopic ==
    /\ GEMINI_API_KEY = FALSE
    /\ curation = NoCuration
    /\ route = "isNewTopic"
    /\ conversationStates = <<>>
    /\ response = NoResponse
    /\ \E message \in SeqsUpTo(Phrases, MaxUnits) \ {<<>>}, previous \in PreviousQueries :
          turn = [kind |-> "isNewTopic", message |-> message, previous |-> previous,
                  applied |-> FALSE, result |-> FALSE]
    /\ turns = 0
    /\ asked = NotAsked
    /\ db = NoDb
    /\ requests = NoRequests

NextNewTopic == ApplyIsNewTopic

SpecNewTopic == InitNewTopic /\ [][NextNewTopic]_vars

-----------------------------------------------------------------------------
\* Direct application of the Curation Engine to any batch and any service answer

\* The inputs of the application are drawn when the run starts; Curate applies
\* the function to them once.
Curate ==
    /\ ~curation.applied
    /\ LET r == analyzeAndCurateVideos(GEMINI_API_KEY, curation.videos, curation.service)
       IN curation' = [curation EXCEPT !.applied = TRUE, !.result = r.result,
                                       !.calls = r.calls]
    /\ UNCHANGED <<db, requests, GEMINI_API_KEY, route, conversationStates, response, turn, turns, asked>>

InitCurate ==
    /\ GEMINI_API_KEY \in BOOLEAN
    /\ \E videos \in CandidateLists, svc \in ServiceOutputs :
          curation = [applied |-> FALSE, videos |-> videos, service |-> svc,
                      result |-> NullPath, calls |-> 0]
    /\ route = "none"
    /\ conversationStates = <<>>
    /\ response = NoResponse
    /\ turn = NoTurn
    /\ turns = 0
    /\ asked = NotAsked
    /\ db = NoDb
    /\ requests = NoRequests

NextCurate == Curate

SpecCurate == InitCurate /\ [][NextCurate]_vars

\* The same application, to the answers that carry stage numbers and quality scores
InitGraded ==
    /\ GEMINI_API_KEY = TRUE
    /\ \E videos \in CandidateLists, svc \in GradedOutputs :
          curation = [applied |-> FALSE, videos |-> videos, service |-> svc,
                      result |-> NullPath, calls |-> 0]
    /\ route = "none"
    /\ conversationStates = <<>>
    /\ response = NoResponse
    /\ turn = NoTurn
    /\ turns = 0
    /\ asked = NotAsked
    /\ db = NoDb
    /\ requests = NoRequests

SpecGraded == InitGraded /\ [][NextCurate]_vars

-----------------------------------------------------------------------------
\* Properties of the dialogue controllers

Turned == turn.kind = "turn"

\* the first slot a keyword-controller state lacks, in the order topic, level, goal
FirstMissing(state) ==
    IF state.topic = None THEN "topic"
    ELSE IF state.skillLevel = None THEN "skillLevel"
    ELSE IF state.goal = None THEN "goal"
    ELSE "nothing"

Admitted == Turned /\ turn.gate # "limited"

\* topic, skill level and goal can all be extracted from the message
AllExtractable(m) ==
    /\ Parsed[m].userMessage # ""
    /\ ~Parsed[m].greeting
    /\ ~Parsed[m].reset
    /\ Parsed[m].level # None
    /\ Parsed[m].goal # None

\* C11: from GREETING, an admitted utterance from which topic, skill level and
\* goal are all extractable reaches the search in that same turn, and the response
\* asks neither for the skill level nor for the goal.
C11_EarlyExit ==
    [][(/\ route = "keyword"
        /\ turn'.kind = "turn"
        /\ turn'.gate = "ok"
        /\ turn'.convId \in ConvIds
        /\ conversationStates[turn'.convId].stage \in {"absent", "greeting"}
        /\ AllExtractable(turn'.message))
       => (/\ turn'.searched
           /\ response'.asks \cap {"skillLevel", "goal"} = {})]_vars

\* C12: an admitted utterance that contains a reset phrase leaves the conversation
\* in GREETING with topic, skillLevel and goal unset, whatever the stage before, and
\* no search is run in that turn.
C12_ResetClearsSlots ==
    (Admitted /\ turn.gate = "ok" /\ Parsed[turn.message].reset)
    => /\ conversationStates[turn.convId] = KwGreeting
       /\ ~turn.searched
       /\ turn.search = "none"

\* C12 witness: a reset phrase arrived after topic and level were stored.
C12_Witness ==
    /\ Admitted /\ turn.gate = "ok"
    /\ Parsed[turn.message].reset
    /\ turn.convId \in ConvIds
    /\ turn.before[turn.convId].stage = "got_level"
    /\ turn.before[turn.convId].topic # None
    /\ conversationStates[turn.convId] = KwGreeting

\* The request was not turned away by the rate limiter and its message is empty once
\* sanitised and trimmed
EmptyUtterance ==
    Turned /\ turn.gate # "limited" /\ Parsed[turn.message].userMessage = ""

\* The turn made no call to searchTutorials
NoSearchRun == IF route = "keyword" THEN ~turn.searched ELSE turn.stage = "rejected"

WatchedFlags(videoProgress) ==
    [k \in DOMAIN videoProgress |->
        IF videoProgress[k].exists THEN videoProgress[k].watched ELSE "none"]

\* The request answered last was a successful setWatched
Tracked == turn.kind = "progress" /\ response.success

\* C14: a setWatched that repeats the successful setWatched just before it (same
\* caller, learningPathId, videoId and watched) leaves the stored watched flags as
\* they are and reports the same watchedCount and percentage.
C14_IdempotentProgress ==
    [][(/\ Tracked
        /\ turn'.kind = "progress"
        /\ turn'.caller = turn.caller
        /\ turn'.body = turn.body
        /\ turns' = turns + 1)
       => /\ WatchedFlags(db'.videoProgress) = WatchedFlags(db.videoProgress)
          /\ response'.success
             => /\ response'.watchedCount = response.watchedCount
                /\ response'.totalProgress = response.totalProgress
                /\ response'.watched = response.watched]_vars

\* C14 witness: the same successful request was made twice in a row, and the second
\* one rewrote the row of a watched video.
C14_Witness ==
    /\ Tracked
    /\ turn.body.watched = "true"
    /\ turn.before[<<turn.body.learningPathId, turn.body.videoId>>].exists
    /\ turn.before[<<turn.body.learningPathId, turn.body.videoId>>].watched
    /\ response.watchedCount = 1
    /\ response.totalProgress = 50

\* The caller of the last request is a user who owns the learning path it names
OwnsPath ==
    /\ turn.caller.token = "user"
    /\ turn.body.learningPathId \in PathIds
    /\ db.savedLearningPath[turn.body.learningPathId].userId = turn.caller.userId

\* C15: a setWatched from a guest, from a caller without a valid token or from a
\* user who does not own learningPathId is rejected, and every progress record is
\* as it was before the request.
C15_OwnerOnly ==
    (turn.kind = "progress" /\ ~OwnsPath)
    => /\ ~response.success
       /\ response.status \in {400, 401, 404, 500}
       /\ db.videoProgress = turn.before

\* C15 witness: a user asked to mark a video of another user's path, which holds
\* progress, and was answered 404.
C15_Witness ==
    /\ turn.kind = "progress"
    /\ turn.caller.token = "user"
    /\ turn.body.learningPathId \in PathIds
    /\ turn.body.videoId \in VideoIds
    /\ ~OwnsPath
    /\ response.status = 404
    /\ \E v \in VideoIds : db.videoProgress[<<turn.body.learningPathId, v>>].exists
    /\ db.videoProgress = turn.before

\* C16: for one client key at most maxAttempts chat messages are admitted within one
\* window, also when its requests are handled concurrently, and no message is
\* admitted while the key is blocked.
C16_RateLimitHolds ==
    turn.kind = "window" => (turn.admitted <= maxAttempts /\ ~turn.afterBlock)

\* The turn answered last called the search provider, and the call failed
SearchFailed ==
    Turned /\ IF route = "keyword" THEN turn.search = "throw"
              ELSE turn.pc = "idle" /\ turn.stage = "search_failed"

\* C17: when the search provider fails during a turn, the stored conversation state
\* is the one stored before that turn (same stage, same slots).
C17_SearchFailureRollsBack ==
    SearchFailed => conversationStates = turn.before

\* No request is between two awaits
Quiescent == \A i \in Slots : requests[i].pc = "idle"

\* C19: the turns of one conversation id take effect one at a time in arrival
\* order and no update is lost: once every turn has completed, the state stored for
\* the id is the one that handling the turns one after the other in arrival order
\* leaves.
C19_TurnsTakeEffectInOrder ==
    Quiescent => \A c \in ConvIds : StoredState(c) = turn.serial[c]

RECURSIVE WordsOf(_)
\* The words longer than three characters of the phrases, in order
WordsOf(phrases) ==
    IF Len(phrases) = 0 THEN <<>> ELSE phrases[1].words \o WordsOf(Tail(phrases))

HasFollowUp(phrases) == \E i \in 1..Len(phrases) : phrases[i].followUp

SharesWord(a, b) == Range(WordsOf(a)) \cap Range(WordsOf(b)) # {}

\* C21: an utterance that contains a follow-up keyword is never a new topic,
\* whatever words it shares with the stored query; an utterance without one that
\* shares no word longer than three characters with the stored query and has more
\* than two such words is a new topic.
C21_NewTopicDetection ==
    (turn.kind = "isNewTopic" /\ turn.applied) =>
        /\ HasFollowUp(turn.message) => ~turn.result
        /\ (/\ ~HasFollowUp(turn.message)
            /\ ~SharesWord(turn.message, turn.previous)
            /\ Len(WordsOf(turn.message)) > MinNewTopicWords) => turn.result

C21_Witness ==
    /\ turn.kind = "isNewTopic" /\ turn.applied
    /\ ~HasFollowUp(turn.message)
    /\ ~SharesWord(turn.message, turn.previous)
    /\ Len(WordsOf(turn.message)) > MinNewTopicWords
    /\ turn.result

\* The admitted turn just taken by the keyword controller found conversation c in
\* the given stages and carried an utterance that is neither empty nor a reset
FollowUpTurn(c, stages) ==
    /\ route = "keyword"
    /\ turn'.kind = "turn"
    /\ turn'.gate = "ok"
    /\ turn'.convId = c
    /\ conversationStates[c].stage \in stages
    /\ Parsed[turn'.message].userMessage # ""
    /\ ~Parsed[turn'.message].reset

\* C22: an utterance in RESULTS that is a new topic with respect to the stored
\* topic ends the turn in GOT_TOPIC with the utterance as topic, skill level and
\* goal unset, and no search run.
C22_NewTopicRestarts ==
    [][\A c \in ConvIds :
        (/\ FollowUpTurn(c, {"results"})
         /\ isNewTopic(Parsed[turn'.message].userMessage, conversationStates[c].topic))
        => (/\ conversationStates'[c] =
                  [stage |-> "got_topic", topic |-> Parsed[turn'.message].userMessage,
                   skillLevel |-> None, goal |-> None]
            /\ ~turn'.searched)]_vars

\* The slot value after an utterance: the detected value, else the stored one
Updated(detected, stored) == IF detected # None THEN detected ELSE stored

\* C23: in READY_TO_SEARCH or RESULTS an utterance in which a skill level or a goal
\* is detected, and which is not a new topic, re-runs the search with the detected
\* values in place of the stored ones, and the state stored with the videos found
\* holds the detected values.
C23_SlotUpdateAndResearch ==
    [][\A c \in ConvIds :
        LET p == Parsed[turn'.message]
            old == conversationStates[c]
            level == Updated(p.level, old.skillLevel)
            goal == Updated(p.goal, old.goal)
        IN (/\ FollowUpTurn(c, {"ready_to_search", "results"})
            /\ p.level # None \/ p.goal # None
            /\ ~isNewTopic(p.userMessage, old.topic))
           => (/\ turn'.searched
               /\ turn'.query = KwSearchQuery(old.topic, level, goal)
               /\ turn'.search = "found" =>
                     (/\ conversationStates'[c].skillLevel = level
                      /\ conversationStates'[c].goal = goal))]_vars

\* C24: in GOT_TOPIC an unsure answer without a level keyword stores skillLevel
\* beginner, moves to GOT_LEVEL and asks for the goal; in GOT_LEVEL an answer without
\* a goal keyword runs the search with goal project, and the state stored with the
\* videos found holds that goal.
C24_DefaultsAdvance ==
    [][\A c \in ConvIds :
        LET p == Parsed[turn'.message]
            old == conversationStates[c]
        IN /\ (FollowUpTurn(c, {"got_topic"}) /\ p.unsure /\ p.level = None)
              => (/\ conversationStates'[c] =
                        [old EXCEPT !.skillLevel = "beginner", !.stage = "got_level"]
                  /\ ~turn'.searched
                  /\ response'.asks = {"goal"})
           /\ (FollowUpTurn(c, {"got_level"}) /\ p.goal = None)
              => (/\ turn'.searched
                  /\ turn'.query = KwSearchQuery(old.topic, old.skillLevel, "project")
                  /\ turn'.search = "found" =>
                        conversationStates'[c] =
                            [old EXCEPT !.goal = "project", !.stage = "results"])]_vars

C24_Witness ==
    /\ route = "keyword"
    /\ Admitted /\ turn.gate = "ok"
    /\ turn.convId \in ConvIds
    /\ turn.before[turn.convId].stage = "got_topic"
    /\ Parsed[turn.message].unsure /\ Parsed[turn.message].level = None
    /\ ~Parsed[turn.message].reset /\ Parsed[turn.message].userMessage # ""
    /\ conversationStates[turn.convId].stage = "got_level"
    /\ conversationStates[turn.convId].skillLevel = "beginner"

\* The slots a stored state of the keyword controller has set
SlotsSet(state) ==
    {s \in {"topic", "skillLevel", "goal"} :
        CASE s = "topic" -> state.topic # None
          [] s = "skillLevel" -> state.skillLevel # None
          [] s = "goal" -> state.goal # None}

\* C29: every state the keyword controller has stored is stage-consistent: GREETING
\* has no slot set, GOT_TOPIC the topic only, GOT_LEVEL the topic and the skill
\* level, READY_TO_SEARCH and RESULTS all three.
C29_StageConsistent ==
    route = "keyword" =>
        \A c \in ConvIds :
            LET state == conversationStates[c]
            IN state # KwAbsent =>
                  SlotsSet(state) =
                      CASE state.stage = "greeting" -> {}
                        [] state.stage = "got_topic" -> {"topic"}
                        [] state.stage = "got_level" -> {"topic", "skillLevel"}
                        [] state.stage \in {"ready_to_search", "results"}
                             -> {"topic", "skillLevel", "goal"}

C29_Witness ==
    /\ route = "keyword"
    /\ Turned /\ turn.search = "throw"
    /\ conversationStates[turn.convId].stage = "ready_to_search"
    /\ conversationStates[turn.convId].goal = "project"

\* C10 (as claimed): the skill-level question and the goal question are never asked
\* more than twice in a row in one conversation.
C10_NoThirdAsk ==
    (asked.asks \in {{"skillLevel"}, {"goal"}}) => asked.count <= 2

-----------------------------------------------------------------------------
\* Properties of the Gemini-backed chat turn

\* The turn just answered ran the search and the curation
Curated == turn.kind = "turn" /\ turn.pc = "idle" /\ turn.stage = "curated"

\* The ways the reasoning service fails or answers without a parseable JSON object
ServiceFailures == {"throw", "nojson", "badjson"}

\* C3: whenever the search returned at least one candidate and the curation
\* produced no non-empty stage (null, or a path with zero stages), the response
\* carries the raw candidate list as tutorials and no learning path.
C3_RawListWhenNoStage ==
    (Curated /\ Len(turn.tutorials) > 0
        /\ (turn.curated = NullPath \/ Len(turn.curated.stages) = 0))
    => /\ response.success
       /\ response.hasTutorials
       /\ response.tutorials = turn.tutorials
       /\ response.learningPath = NullPath

\* C6: when the reasoning-service call fails or its answer holds no parseable JSON
\* object, analyzeAndCurateVideos returns null (it does not throw), and the turn
\* answers 200 success with the full candidate list as tutorials and no path.
C6_ServiceFailureFallsBack ==
    (Curated /\ turn.service \in ServiceFailures)
    => /\ turn.curated = NullPath
       /\ response.status = 200
       /\ response.success
       /\ response.hasTutorials
       /\ response.tutorials = turn.tutorials
       /\ response.learningPath = NullPath

C6_Witness ==
    /\ Curated
    /\ turn.service = "throw"
    /\ Len(turn.tutorials) = 2
    /\ turn.curated = NullPath
    /\ response.success
    /\ response.tutorials = turn.tutorials

\* What a success response of the Gemini-backed handler gives the user to act on
\* How many times the turn has called service
Calls(service) ==
    Cardinality({i \in DOMAIN turn.calls : turn.calls[i] = service})

\* The turn reached the model and may have called the search and the curation
Serviced == turn.kind = "turn" /\ turn.stage # "rejected"

\* C20: within one turn searchTutorials is called at most once and
\* analyzeAndCurateVideos, hence the reasoning service for curation, at most once;
\* when either call fails the turn is over at once, with the invitation to try again
\* after a failed search and with the fetched videos as they are after a failed
\* curation.
C20_NoRetry ==
    Serviced =>
        /\ Calls("searchTutorials") <= 1
        /\ Calls("analyzeAndCurateVideos") <= 1
        /\ turn.stage = "search_failed" =>
              (turn.pc = "idle" /\ response.kind = "search_issue")
        /\ (turn.stage = "curated" /\ turn.service = "throw") =>
              (turn.pc = "idle" /\ response.success /\ response.hasTutorials)

C20_Witness ==
    /\ Serviced
    /\ turn.stage = "search_failed"
    /\ turn.calls = <<"generateContent", "searchTutorials">>

IsPrefix(a, b) == Len(a) <= Len(b) /\ SubSeq(b, 1, Len(a)) = a

\* C27: the message history of a conversation is append-only: whatever the handler
\* does, a conversation that had a history stored still has one, and the history
\* stored before is a prefix of the history stored after.
C27_HistoryAppendOnly ==
    [][\A c \in ConvIds :
        conversationStates[c] # GmAbsent
        => (/\ conversationStates'[c] # GmAbsent
            /\ IsPrefix(conversationStates[c].messages, conversationStates'[c].messages))]_vars

C27_Witness ==
    /\ turn.kind = "turn" /\ turn.stage = "chatted"
    /\ turn.existed
    /\ Len(conversationStates[turn.convId].messages) >= 4

\* The utterance of the turn, as the handler adds it to the history
UserEntry == [role |-> "user", content |-> trim(sanitizeInput(turn.message))]

\* C30: a turn of the Gemini-backed controller that has processed a non-empty
\* utterance and answered with a conversationId leaves a state stored under that id
\* whose history holds the utterance, on a first turn and after a failure of the
\* reasoning service or of the search as well.
C30_UtteranceStored ==
    (/\ turn.kind = "turn" /\ turn.pc = "idle" /\ turn.stage # "rejected"
     /\ response.success
     /\ response.conversationId \in ConvIds)
    => (/\ conversationStates[response.conversationId] # GmAbsent
        /\ UserEntry \in Range(conversationStates[response.conversationId].messages))

AsksOrInvites ==
    \/ response.kind \in {"reprompt", "gemini_error", "search_issue", "no_api_key"}
    \/ response.kind = "chat" /\ turn.stage = "chatted"    \* the model's own reply
    \/ response.noTutorialsNote                              \* "What would you like to try?"

CarriesResults ==
    \/ response.hasLearningPath
    \/ response.hasTutorials /\ Len(response.tutorials) > 0

\* C18: every turn that ends in a success response carries a question or an
\* invitation to retry, a learning path with at least one stage, or a non-empty
\* tutorial list.
C18_SuccessIsActionable ==
    (turn.kind = "turn" /\ turn.pc = "idle" /\ response.success)
    => (AsksOrInvites \/ CarriesResults)

-----------------------------------------------------------------------------
\* Properties of the Curation Engine (checked under SpecCurate)

ReturnedPath == curation.applied /\ curation.result.ret = "path"

BatchIds == {curation.videos[i].id : i \in 1..Len(curation.videos)}

\* The entries of the service output, as (stage, position) pairs
ServiceSlots(svc) ==
    IF svc.kind = "json" /\ svc.hasStages
    THEN {<<s, i>> \in (1..Len(svc.stages)) \X (1..MaxStageVideos + 1) :
             i <= Len(svc.stages[s].videos)}
    ELSE {}

ServiceNamesUnknownId ==
    \E sl \in ServiceSlots(curation.service) :
        curation.service.stages[sl[1]].videos[sl[2]].videoId \notin BatchIds

\* C1: every videoId in every stage of a returned LearningPath is the id of one
\* of the input candidates, whatever ids the reasoning service named.
C1_IdClosure ==
    ReturnedPath =>
        \A s \in 1..Len(curation.result.stages) :
            \A i \in 1..Len(curation.result.stages[s].videos) :
                curation.result.stages[s].videos[i].videoId \in BatchIds

\* C1 witness: a path with a video was returned although the service named an unknown id.
C1_Witness ==
    /\ ReturnedPath
    /\ ServiceNamesUnknownId
    /\ curation.result.totalVideos > 0

\* C2 (as claimed): a returned LearningPath never has zero stages.
C2_NeverEmptyPath ==
    ReturnedPath => Len(curation.result.stages) > 0

\* C4 (as claimed): each videoId appears at most once across all stages of a
\* returned LearningPath.
C4_UniqueVideoIds ==
    ReturnedPath =>
        \A s, t \in 1..Len(curation.result.stages) :
            \A i \in 1..Len(curation.result.stages[s].videos) :
                \A j \in 1..Len(curation.result.stages[t].videos) :
                    curation.result.stages[s].videos[i].videoId =
                        curation.result.stages[t].videos[j].videoId
                    => (s = t /\ i = j)

\* C5: totalVideos of a returned LearningPath equals the sum of videos.length over
\* its stages, which is the number of service entries matched to a candidate.
C5_TotalVideos ==
    ReturnedPath =>
        /\ curation.result.totalVideos = SumLens(curation.result.stages)
        /\ curation.result.totalVideos =
             Cardinality({sl \in ServiceSlots(curation.service) :
                 curation.service.stages[sl[1]].videos[sl[2]].videoId \in BatchIds})

\* C5 witness: a path was returned from an output with matched and unmatched entries.
C5_Witness ==
    /\ ReturnedPath
    /\ ServiceNamesUnknownId
    /\ curation.result.totalVideos >= 2
    /\ Len(curation.result.stages) < Len(curation.service.stages)

\* C7: with an empty candidate list the function returns null and makes no call
\* to the reasoning service.
C7_EmptyBatchNoCall ==
    (curation.applied /\ Len(curation.videos) = 0) =>
        (curation.result = NullPath /\ curation.calls = 0)

\* C7 witness: the function was applied to an empty batch with the key configured
\* and a service that would have answered with a usable plan.
C7_Witness ==
    /\ curation.applied
    /\ Len(curation.videos) = 0
    /\ GEMINI_API_KEY
    /\ curation.service.kind = "json"


\* The videos of the returned path, as (stage, position) pairs
PathSlots ==
    {<<s, i>> \in (1..MaxStages + 1) \X (1..MaxStageVideos + 1) :
        /\ s <= Len(curation.result.stages)
        /\ i <= Len(curation.result.stages[s].videos)}

\* C25: in every returned path each video's qualityScore is an integer from 1 to
\* 10, whatever the service gave for it.
C25_QualityScoreInRange ==
    ReturnedPath =>
        \A sl \in PathSlots :
            curation.result.stages[sl[1]].videos[sl[2]].qualityScore \in 1..10

\* C26: in every returned path the stageNumbers are positive integers and strictly
\* increasing in stage order, hence pairwise distinct.
C26_StageNumbersIncrease ==
    ReturnedPath =>
        LET stages == curation.result.stages
        IN /\ \A s \in 1..Len(stages) : stages[s].stageNumber \in Nat \ {0}
           /\ \A s, t \in 1..Len(stages) :
                 s < t => stages[s].stageNumber < stages[t].stageNumber


\* C28: whatever setWatched calls and saves were made, the watchedCount reported
\* for a saved path does not exceed its totalVideos and the percentage reported is
\* between 0 and 100, in the answer to setWatched and in the stats of either GET.
C28_ProgressWithinBounds ==
    route = "progress" =>
        /\ \A p \in PathIds :
              /\ progressStats(p).watchedCount <= progressStats(p).totalVideos
              /\ progressStats(p).progressPercent \in 0..100
        /\ (turn.kind = "progress" /\ response.success) =>
              /\ response.watchedCount <= response.totalVideos
              /\ response.totalProgress \in 0..100

====
